---- MODULE Spec2Model ----
(***************************************************************************)
(* Model of the parkes-controller request pipeline:                        *)
(*   lib/parkesController.js  (ParkesController: constructor, authorize,   *)
(*                             show / index / create / update / destroy)   *)
(*   lib/restHandler.js       (RestHandler: constructor,                   *)
(*                             blockRestrictedKeys, buildFilterIncludes,   *)
(*                             find, index, create, update, destroy)       *)
(*   lib/hook.js              (hook, createProxyHooks)                     *)
(*   lib/mergeQueryParams.js  (mergeQueryParams)                           *)
(*   pagination.js            (paginate, formatPaginate; the ./pagination  *)
(*                             module of restHandler.js, kept in the       *)
(*                             repository as unnamed/part_001)             *)
(*                                                                         *)
(* One controller is constructed, then serves requests one after the       *)
(* other.  Every request is a chain of steps, one per awaited call of the  *)
(* source.  What a request did is recorded in `trace`, a sequence of       *)
(* entries [kind, name, args]:                                             *)
(*   kind "hook"       a hook method of the controller was called          *)
(*   kind "emit"       RestHandler.emit(name, ...args)                     *)
(*   kind "db"         a call of the ORM (findOne, findAndCountAll,        *)
(*                     create, update, destroy)                            *)
(*   kind "authorize"  options.authorize(ctx, {action: name, model})       *)
(*   kind "authorized" that call completed without throwing                *)
(*   kind "listener"   a listener registered on the RestHandler was run    *)
(*   kind "state"      ctx.state.data = args[1]                            *)
(*   kind "next"       next() was called                                   *)
(* Values are symbolic: "ctx", "modelClass", "record" (the row returned by *)
(* findOne), "newRecord" (ctx.request.body.data), "created" (the row       *)
(* returned by modelClass.create), "collection" (the rows of an index),    *)
(* "envelope" ({collection, pagination}), "destroyResult" (whatever        *)
(* record.destroy() resolved to).                                          *)
(***************************************************************************)
EXTENDS Integers, Sequences, FiniteSets, TLC

\* ------------------------------------------------------------------ bounds
MaxRequests == 1
\* rows an index query may return
MaxRows == 1
\* rows an index query may count
MaxCount == 3
\* pages a client follows nextUrl over
MaxHops == 4

\* ------------------------------------------------------- program constants
\* lib/restHandler.js:68  DEFAULT_RESTRICTED
DEFAULT_RESTRICTED ==
    <<"id", "uuid", "password", "permission", "internal",
      "privateKey", "publicKey", "userId", "organisationId">>

\* lib/restHandler.js:13
DEFAULT_LIMIT == 100

\* The ten hook names of the README hook table
HookNames ==
    {"beforeShow", "afterShow", "beforeIndex", "afterIndex",
     "beforeCreate", "afterCreate", "beforeUpdate", "afterUpdate",
     "beforeDestroy", "afterDestroy"}

Actions == {"show", "index", "create", "update", "destroy"}

\* ------------------------------------------------------------ input spaces
\* values given as options.authorize ("missing": options itself is undefined)
AuthorizeValues == {"fn", "false", "undefined", "null", "zero", "missing"}

\* which hook methods the controller subclass defines
HookSets ==
    {{}, HookNames,
     {"beforeCreate", "beforeUpdate"},
     {"afterShow", "afterIndex", "afterCreate", "afterUpdate", "afterDestroy"}}

\* options.models: absent, holding the model of the controller, or not
ModelsValues == {"missing", "hasModel", "lacksModel"}

\* options.restricted ("unset" is <<"unset">>, never a field name list)
RestrictedValues == {<<"unset">>, <<"name", "id">>}
AllowedValues == {<<>>, <<"id">>}
ResourceIdColumnValues == {"unset", "slug"}
ScopeModelsValues == {<<>>, <<"organisation", "campaign">>}
\* the name given to the controller ("" stands for none)
NameValues == {"", "user", "Users"}
\* options.include, options.filterAttributes, options.search
IncludeValues == {<<"unset">>, <<"profile">>}
FilterAttributesValues == {<<"unset">>, <<"type", "status">>}
SearchValues == {<<"unset">>, <<"name", "email">>}
\* options.defaultPageLength (0 stands for unset)
DefaultPageLengthValues == {0, 2}

\* a string is the sequence of its characters
Str1(a) == <<a>>
Str2(a, b) == <<a, b>>

\* ctx.params and ctx.query of a request, per controller method: the route
\* names the resource (:user) and may be nested under a scope model
\* (/organisations/:organisation/users/:user)
RequestShapes(a) ==
    LET user == [k \in {"user"} |-> Str2("u", "1")]
        nested == [k \in {"user", "organisation"} |->
                     IF k = "user" THEN Str2("u", "1") ELSE Str2("o", "1")]
        none == [k \in {} |-> <<>>]
        byCampaign == [k \in {"campaign"} |-> Str2("c", "1")]
        byBoth == [k \in {"campaign", "organisation"} |->
                     IF k = "campaign" THEN <<>> ELSE Str2("o", "2")]
        page == [k \in {"limit", "offset", "type"} |->
                     CASE k = "limit" -> Str1("2") [] k = "offset" -> Str1("1")
                       [] k = "type" -> Str2("a", "b")]
    IN CASE a = "show" ->
              {[params |-> user, query |-> none],
               [params |-> user, query |-> byCampaign],
               [params |-> nested, query |-> byCampaign],
               [params |-> nested, query |-> byBoth]}
         [] a = "index" ->
              {[params |-> none, query |-> none],
               [params |-> none, query |-> page],
               [params |-> none,
                query |-> [k \in {"q", "type", "other"} |->
                             CASE k = "q" -> Str2("j", "o")
                               [] k = "type" -> <<>>
                               [] k = "other" -> Str1("x")]],
               [params |-> [k \in {"organisation"} |-> Str2("o", "1")],
                query |-> byBoth]}
         [] OTHER ->
              {[params |-> user, query |-> none],
               [params |-> nested, query |-> byCampaign]}

\* ctx.request.body.data: absent, or an object with these keys
PayloadKeySets == {{}, {"job"}, {"id"}, {"id", "uuid"}, {"job", "slug"}, {"name"}}
Bodies == [present : BOOLEAN, keys : PayloadKeySets]

\* the query strings of the requests for a page: limit, offset, type and
\* parentId are each absent or one of these texts
Absent == <<"undefined">>
LimitTexts ==
    {Absent, <<"2">>, <<"1">>, <<"0">>, <<"-", "1">>, <<"x">>, <<"3", "x">>,
     <<" ", "2">>}
OffsetTexts ==
    {Absent, <<"0">>, <<"1">>, <<"2">>, <<"5">>, <<"1", "2">>, <<"-", "2">>,
     <<"x">>}
TypeTexts == {Absent, <<>>, <<"a", "b">>}
ParentIdTexts == {Absent, <<>>, <<"p", "1">>}

\* the object with the keys of r that are not absent
Present(r) == [k \in {key \in DOMAIN r : r[key] # Absent} |-> r[k]]

PageQueries ==
    {Present(r) : r \in [limit : LimitTexts, offset : OffsetTexts,
                         type : TypeTexts, parentId : ParentIdTexts]}

\* a listener registered with this.rest.on(event, fn): it returns, starts
\* asynchronous work that never finishes, or throws
NoListener == [on |-> "none", does |-> "returns"]

ListenersOf(a) ==
    {NoListener} \cup
    CASE a = "show" ->
           [on : {"afterFind"}, does : {"returns", "neverFinishes", "throws"}]
           \cup {[on |-> "beforeFind", does |-> "throws"]}
      [] a = "index" ->
           [on : {"afterIndex"}, does : {"returns", "throws"}]
           \cup {[on |-> "beforeIndex", does |-> "throws"]}
      [] a = "create" ->
           [on : {"beforeCreate"}, does : {"returns", "neverFinishes", "throws"}]
           \cup {[on |-> "afterCreate", does |-> "throws"]}
      [] a = "update" ->
           [on : {"beforeUpdate"}, does : {"returns", "throws"}]
           \cup {[on |-> "afterUpdate", does |-> "throws"],
                 [on |-> "afterFind", does |-> "throws"]}
      [] a = "destroy" ->
           [on : {"beforeDestroy"}, does : {"neverFinishes", "throws"}]
           \cup {[on |-> "afterDestroy", does |-> "throws"]}

\* -------------------------------------------------------------- variables
VARIABLES
    ctor,          \* "new" | "constructed" | "threw"
    restCreated,   \* this.rest has been assigned
    optAuthorize,  \* options.authorize
    optModels,     \* options.models
    ctrlName,      \* name given to the constructor ("" is falsy)
    restricted,    \* RestHandler.options.restricted (after construction)
    allowed,       \* RestHandler.options.allowed
    resourceIdColumn, \* RestHandler.options.resourceIdColumn
    optRestricted, \* options.restricted as given to the constructor
    defaultPageLength, \* RestHandler.options.defaultPageLength
    scopeModels,   \* RestHandler.options.scopeModels
    proxied,       \* hook names installed on this.rest by createProxyHooks
    defined,       \* hook methods the controller defines
    pc,            \* position of the request being served
    action,        \* controller method of the request
    body,          \* ctx.request.body.data
    hasNext,       \* a next function was passed
    listener,      \* the listener registered on this.rest, if any
    params,        \* ctx.params
    sent,          \* the query string as the client sent it
    query,         \* ctx.query
    allParams,     \* the last result of mergeQueryParams(ctx)
    authScopes,    \* opts.scopes of the last call of options.authorize
    message,       \* the message of the 'restricted field' error, in pieces
    envelope,      \* the {collection, pagination} built by paginate
    include,       \* the include of the query given to findAndCountAll
    count,         \* the count findAndCountAll answered
    trace,         \* what the request did so far
    stateData,     \* ctx.state.data ("unset" until assigned)
    outcome,       \* "running" | "ok" | an error code
    proxyHook,     \* promise of the controller hook started by hookProxy
    rows,          \* number of rows the index query returned
    reqCount,      \* requests started so far
    optInclude,    \* RestHandler.options.include
    filterAttributes, \* RestHandler.options.filterAttributes
    search,        \* RestHandler.options.search
    modelWhereByAlias, \* the model class defines whereByAlias
    where,         \* where[Op.and] of the query given to findAndCountAll
    findWhere,     \* the where of the query given to findOne by find
    walk,          \* the pages left behind by following nextUrl
    fkPc,          \* position of the call of mapForeignKeyToId
    fkI,           \* its loop counter i (from 1)
    fkRecord,      \* the record it was given, as it is now
    fkGiven,       \* the record as it was given
    foreignKeys,   \* the foreignKeys it was given
    fkOutcome      \* "running" | "resolved" | an error code

ctorVars == <<ctor, restCreated, optAuthorize, optModels, ctrlName, restricted,
              allowed, resourceIdColumn, scopeModels, proxied, defined,
              optRestricted, defaultPageLength, filterAttributes,
              modelWhereByAlias>>
cfgVars == <<ctorVars, optInclude, search>>
reqVars == <<action, body, hasNext, listener, params, sent, reqCount, walk>>
mergeVars == <<allParams, authScopes>>
pageVars == <<query, envelope, include, count, where>>
fkVars == <<fkPc, fkI, fkRecord, fkGiven, foreignKeys, fkOutcome>>
vars == <<cfgVars, reqVars, pc, trace, stateData, outcome, proxyHook, rows,
          pageVars, mergeVars, message, findWhere, fkVars>>

\* ---------------------------------------------------------------- helpers
Range(s) == {s[i] : i \in 1..Len(s)}

Entry(kind, name, args) == [kind |-> kind, name |-> name, args |-> args]

\* indexes of the entries of the trace of a kind and name
Pos(kind, name) ==
    {i \in 1..Len(trace) : trace[i].kind = kind /\ trace[i].name = name}

PosKind(kind) == {i \in 1..Len(trace) : trace[i].kind = kind}

\* [...new Set(list)]: first occurrences, in order
RECURSIVE Unique(_)
Unique(s) ==
    IF s = <<>> THEN <<>>
    ELSE LET init == Unique(SubSeq(s, 1, Len(s) - 1))
         IN IF s[Len(s)] \in Range(init) THEN init ELSE Append(init, s[Len(s)])

\* list.filter(keep)
RECURSIVE Filter(_, _)
Filter(s, keep) ==
    IF s = <<>> THEN <<>>
    ELSE IF Head(s) \in keep THEN <<Head(s)>> \o Filter(Tail(s), keep)
    ELSE Filter(Tail(s), keep)

\* JavaScript truthiness of the values given as options.authorize
Truthy(v) == v = "fn"

\* ------------------------------------------------- query and parameters
\* ctx.query and ctx.params are objects: functions from their keys to
\* strings, a string being the sequence of its characters
EmptyObject == [k \in {} |-> <<>>]

\* Object.assign(target, source)
assign(target, source) ==
    [k \in DOMAIN target \cup DOMAIN source |->
        IF k \in DOMAIN source THEN source[k] ELSE target[k]]

\* the query string wins over the route parameters
mergeQueryParams_queryWins(q, p) == assign(assign(EmptyObject, p), q)

\* lib/mergeQueryParams.js:6-8  Object.assign({}, ctx.query, ctx.params)
mergeQueryParams(q, p) == assign(assign(EmptyObject, q), p)

\* _.intersection(array, keys): the unique values of array that are in keys
intersection(array, keys) == Unique(Filter(array, keys))

\* only the query string is looked at
scopesPresent_queryOnly(sm, q, p) == intersection(sm, DOMAIN q)

\* lib/restHandler.js:137-141
scopesPresent(sm, q, p) == intersection(sm, DOMAIN mergeQueryParams(q, p))

\* ------------------------------------------------------------- pagination
NaN == [nan |-> TRUE, val |-> 0]

IsDigit(c) == c \in {"0", "1", "2", "3", "4", "5", "6", "7", "8", "9"}

DigitValue(c) ==
    CASE c = "0" -> 0 [] c = "1" -> 1 [] c = "2" -> 2 [] c = "3" -> 3
      [] c = "4" -> 4 [] c = "5" -> 5 [] c = "6" -> 6 [] c = "7" -> 7
      [] c = "8" -> 8 [] c = "9" -> 9

RECURSIVE ParseDigits(_, _)
ParseDigits(str, acc) ==
    IF str = <<>> \/ ~IsDigit(Head(str)) THEN acc
    ELSE ParseDigits(Tail(str), acc * 10 + DigitValue(Head(str)))

RECURSIVE TrimStart(_)
TrimStart(str) ==
    IF str # <<>> /\ Head(str) = " " THEN TrimStart(Tail(str)) ELSE str

\* parseInt(str, 10): leading blanks, a sign, then the digits up to the first
\* character that is not one; NaN when there is no digit
parseInt(str) ==
    LET t == TrimStart(str)
        signed == t # <<>> /\ Head(t) \in {"-", "+"}
        u == IF signed THEN Tail(t) ELSE t
    IN IF u = <<>> \/ ~IsDigit(Head(u)) THEN NaN
       ELSE [nan |-> FALSE,
             val |-> IF signed /\ Head(t) = "-"
                     THEN 0 - ParseDigits(u, 0) ELSE ParseDigits(u, 0)]

\* parseInt(obj[key], 10): an absent key is undefined, which gives NaN
parseIntOf(obj, key) == IF key \in DOMAIN obj THEN parseInt(obj[key]) ELSE NaN

\* x || d for a number x: NaN and 0 are falsy
orElse(x, d) == IF x.nan \/ x.val = 0 THEN d ELSE x.val

DigitChar(d) ==
    CASE d = 0 -> "0" [] d = 1 -> "1" [] d = 2 -> "2" [] d = 3 -> "3"
      [] d = 4 -> "4" [] d = 5 -> "5" [] d = 6 -> "6" [] d = 7 -> "7"
      [] d = 8 -> "8" [] d = 9 -> "9"

RECURSIVE NatToString(_)
NatToString(n) ==
    IF n < 10 THEN <<DigitChar(n)>>
    ELSE NatToString(n \div 10) \o <<DigitChar(n % 10)>>

\* the decimal text qs.stringify writes for a number
NumberToString(n) ==
    IF n < 0 THEN <<"-">> \o NatToString(0 - n) ELSE NatToString(n)

UpperChar(c) ==
    CASE c = "a" -> "A" [] c = "b" -> "B" [] c = "c" -> "C" [] c = "o" -> "O"
      [] OTHER -> c

\* String.prototype.toUpperCase
toUpperCase(str) == [i \in 1..Len(str) |-> UpperChar(str[i])]

\* Math.ceil(a / b) for integers a >= 0 and b # 0
ceil(a, b) ==
    IF b > 0 THEN (a + b - 1) \div b
    ELSE 0 - (a \div (0 - b))

\* Math.max
max(a, b) == IF a >= b THEN a ELSE b

\* formatPaginate, src/unnamed/part_001:31-34: what it leaves in ctx.query
\* (type is upper-cased, an empty type or parentId is deleted)
normalizeQuery(q) ==
    LET dropped == {k \in {"type", "parentId"} : k \in DOMAIN q /\ q[k] = <<>>}
    IN [k \in DOMAIN q \ dropped |->
           IF k = "type" THEN toUpperCase(q[k]) ELSE q[k]]

NoLink == [url |-> FALSE, query |-> EmptyObject]

\* `${slug}?${qs.stringify(newQuery)}`: the link is known by its query
Link(newQuery) == [url |-> TRUE, query |-> newQuery]

\* a previous link is also given for the first page
prevLink_always(newQuery, offset, limit) ==
    Link(assign(newQuery,
                [k \in {"offset"} |-> NumberToString(max(offset - limit, 0))]))

\* src/unnamed/part_001:41-44
prevLink(newQuery, offset, limit) ==
    IF offset > 0
    THEN Link(assign(newQuery,
                [k \in {"offset"} |-> NumberToString(max(offset - limit, 0))]))
    ELSE NoLink

\* src/unnamed/part_001:46-49  newQuery.offset may have been set for prevUrl
nextLink(newQuery, total, offset, limit) ==
    IF total > offset + limit
    THEN Link(assign(newQuery,
                [k \in {"offset"} |-> NumberToString(offset + limit)]))
    ELSE NoLink

\* the number of pages is rounded down
pages_floor(total, limit) == total \div limit

\* src/unnamed/part_001:29
pages(total, limit) == ceil(total, limit)

\* src/unnamed/part_001:26-57  formatPaginate(data, total, limit, sort,
\* order, offset, slug, query); data is known by its length
formatPaginate(data, total, limit, offset, q) ==
    LET newQuery == assign(assign(EmptyObject, normalizeQuery(q)),
                           [k \in {"limit"} |-> NumberToString(limit)])
    IN [set |-> TRUE,
        collection |-> data,
        pagination |->
            [total |-> total,
             pages |-> pages(total, limit),
             prevUrl |-> prevLink(newQuery, offset, limit),
             nextUrl |-> nextLink(newQuery, total, offset, limit),
             offset |-> offset,
             limit |-> limit]]

\* src/unnamed/part_001:16
pageLimit(q, dpl) == orElse(parseIntOf(q, "limit"), dpl)

\* src/unnamed/part_001:17
pageOffset(q) == orElse(parseIntOf(q, "offset"), 0)

\* src/unnamed/part_001:14-24  paginate, given the {count, rows} the ORM
\* answers to findAndCountAll
paginate(q, total, data, dpl) ==
    formatPaginate(data, total, pageLimit(q, dpl), pageOffset(q), q)

NoEnvelope ==
    [set |-> FALSE, collection |-> 0,
     pagination |-> [total |-> 0, pages |-> 0, prevUrl |-> NoLink,
                     nextUrl |-> NoLink, offset |-> 0, limit |-> 0]]

NoInclude == [queried |-> FALSE, list |-> <<>>]
NoScopes == [computed |-> FALSE, list |-> <<>>]
NoWhere == [queried |-> FALSE, by |-> "none", column |-> "none", value |-> <<>>]
NoParams == [merged |-> FALSE, object |-> EmptyObject]


\* ------------------------------------------------------------ construction
\* only undefined is refused
authorizeMissing_undefinedOnly(a) == a \in {"undefined", "missing"}

\* lib/parkesController.js:33  the test that makes the constructor throw
authorizeMissing(a) == (a # "false") /\ ~Truthy(a)

\* lib/restHandler.js:81  _.defaults(options, {resourceIdColumn: 'uuid'})
defaultResourceIdColumn(idc) == IF idc = "unset" THEN "uuid" ELSE idc

\* lib/restHandler.js:77-85  _.defaults(options, {...}) for a list option
defaults(given, default) == IF given = <<"unset">> THEN default ELSE given

\* lib/restHandler.js:77-78  _.defaults(options, {defaultPageLength: 100})
defaultPageLengthOf(dpl) == IF dpl = 0 THEN DEFAULT_LIMIT ELSE dpl

\* the id column is added even when the default list has it
defaultRestricted_duplicates(r, idc) ==
    IF r = <<"unset">>
    THEN DEFAULT_RESTRICTED \o <<defaultResourceIdColumn(idc)>>
    ELSE r

\* lib/restHandler.js:88-92  restricted defaults to DEFAULT_RESTRICTED plus
\* the id column, as a unique list
defaultRestricted(r, idc) ==
    IF r = <<"unset">>
    THEN Unique(DEFAULT_RESTRICTED \o <<defaultResourceIdColumn(idc)>>)
    ELSE r

\* a supplied allowed list lifts every restriction
filterAllowed_liftsAll(base, al) ==
    IF Len(al) > 0 THEN <<>> ELSE base

\* lib/restHandler.js:95-99  restrictions overridden by allowed are removed
filterAllowed(base, al) ==
    IF Len(al) > 0 THEN Filter(base, Range(base) \ Range(al)) ELSE base

\* lib/restHandler.js:74-75,105-108  the throws of the RestHandler constructor
restHandlerThrows(n, m) == n = "" \/ m = "missing" \/ m = "lacksModel"

Init ==
    /\ ctor = "new"
    /\ restCreated = FALSE
    /\ optAuthorize = "undefined"
    /\ optModels = "missing"
    /\ ctrlName = ""
    /\ restricted = <<>>
    /\ allowed = <<>>
    /\ resourceIdColumn = "unset"
    /\ scopeModels = <<>>
    /\ optRestricted = <<"unset">>
    /\ defaultPageLength = DEFAULT_LIMIT
    /\ optInclude = <<>>
    /\ filterAttributes = <<>>
    /\ search = <<>>
    /\ modelWhereByAlias = FALSE
    /\ proxied = {}
    /\ defined = {}
    /\ pc = "idle"
    /\ action = "none"
    /\ body = [present |-> FALSE, keys |-> {}]
    /\ hasNext = FALSE
    /\ listener = NoListener
    /\ params = EmptyObject
    /\ sent = EmptyObject
    /\ query = EmptyObject
    /\ allParams = NoParams
    /\ authScopes = NoScopes
    /\ message = <<>>
    /\ envelope = NoEnvelope
    /\ include = NoInclude
    /\ count = 0
    /\ trace = <<>>
    /\ stateData = "unset"
    /\ outcome = "none"
    /\ proxyHook = "none"
    /\ rows = 0
    /\ reqCount = 0
    /\ where = <<>>
    /\ findWhere = NoWhere
    /\ walk = <<>>
    /\ fkPc = "idle"
    /\ fkI = 0
    /\ fkRecord = EmptyObject
    /\ fkGiven = EmptyObject
    /\ foreignKeys = <<>>
    /\ fkOutcome = "none"

\* new ParkesController(name, options)        lib/parkesController.js:29-40
\* new RestHandler(name, options)             lib/restHandler.js:72-109
\* createProxyHooks(this.rest, this, [...])   lib/hook.js:9-17
constructor ==
    /\ ctor = "new"
    /\ \E a \in AuthorizeValues, m \in ModelsValues, n \in NameValues,
          r \in RestrictedValues, al \in AllowedValues,
          idc \in ResourceIdColumnValues, sm \in ScopeModelsValues,
          d \in HookSets, dpl \in DefaultPageLengthValues,
          inc \in IncludeValues, fa \in FilterAttributesValues,
          se \in SearchValues, wba \in BOOLEAN :
          /\ (a = "missing" => m = "missing")
          \* a page length is given to controllers without hooks
          /\ (dpl # 0 => d = {})
          \* include, filterAttributes, search and a whereByAlias of the
          \* model are given to controllers that are plain otherwise
          /\ (inc # <<"unset">> \/ fa # <<"unset">> \/ se # <<"unset">>)
                => /\ a = "fn" /\ m = "hasModel" /\ n = "user" /\ d = {}
                   /\ r = <<"unset">> /\ al = <<>> /\ idc = "unset"
                   /\ sm = <<>> /\ dpl = 0 /\ ~wba
          \* so are a plural name and a whereByAlias of the model, with
          \* either id column
          /\ (n = "Users" \/ wba)
                => /\ a = "fn" /\ m = "hasModel" /\ d = {}
                   /\ r = <<"unset">> /\ al = <<>>
                   /\ sm = <<>> /\ dpl = 0
          /\ optAuthorize' = a
          /\ optRestricted' = r
          /\ optModels' = m
          /\ ctrlName' = n
          /\ defined' = d
          /\ IF authorizeMissing(a) \/ restHandlerThrows(n, m)
             THEN /\ ctor' = "threw"
                  /\ restCreated' = FALSE
                  /\ UNCHANGED <<restricted, allowed, resourceIdColumn,
                                 scopeModels, proxied, defaultPageLength,
                                 optInclude, filterAttributes, search,
                                 modelWhereByAlias>>
             ELSE /\ ctor' = "constructed"
                  /\ restCreated' = TRUE
                  /\ restricted' = filterAllowed(defaultRestricted(r, idc), al)
                  /\ allowed' = al
                  /\ resourceIdColumn' = defaultResourceIdColumn(idc)
                  /\ scopeModels' = sm
                  /\ defaultPageLength' = defaultPageLengthOf(dpl)
                  /\ optInclude' = defaults(inc, <<>>)
                  /\ filterAttributes' = defaults(fa, <<>>)
                  /\ search' = defaults(se, <<"name">>)
                  /\ modelWhereByAlias' = wba
                  /\ proxied' = {"beforeCreate", "beforeUpdate"}
    /\ UNCHANGED <<fkVars, findWhere, reqVars, pc, trace, stateData, outcome, proxyHook, rows,
                   pageVars, mergeVars, message>>

\* ----------------------------------------------------------- request steps
\* the first step of each controller method
entry(a) ==
    CASE a = "show" -> "show_beforeShow"
      [] a = "index" -> "index_beforeIndex"
      [] a = "create" -> "create_authorize"
      [] a = "update" -> "update_find"
      [] a = "destroy" -> "destroy_find"

\* a request arrives: router calls controller[action](ctx, next)
request ==
    /\ ctor = "constructed"
    /\ pc \in {"idle", "done"}
    /\ reqCount < MaxRequests
    /\ \E a \in Actions, b \in Bodies, n \in BOOLEAN :
       \E l \in ListenersOf(a), sh \in RequestShapes(a) :
          /\ (~b.present => b.keys = {})
          \* only create and update read the body
          /\ (a \notin {"create", "update"} => ~b.present)
          /\ (l # NoListener => n)
          \* a listener is tried with a plain and with a restricted payload
          /\ (l # NoListener /\ a \in {"create", "update"}
                => b.present /\ b.keys \in {{"job"}, {"id"}})
          \* a query string is tried without listener, with a plain payload
          /\ (sh.query # EmptyObject
                => l = NoListener /\ n /\ (b.present => b.keys = {"job"}))
          /\ action' = a
          /\ body' = b
          /\ hasNext' = n
          /\ listener' = l
          /\ params' = sh.params
          /\ sent' = sh.query
          /\ query' = sh.query
          /\ pc' = entry(a)
    /\ reqCount' = reqCount + 1
    /\ allParams' = NoParams
    /\ authScopes' = NoScopes
    /\ message' = <<>>
    /\ envelope' = NoEnvelope
    /\ include' = NoInclude
    /\ count' = 0
    /\ where' = <<>>
    /\ walk' = <<>>
    /\ trace' = <<>>
    /\ stateData' = "unset"
    /\ outcome' = "running"
    /\ proxyHook' = "none"
    /\ rows' = 0
    /\ findWhere' = NoWhere
    /\ UNCHANGED <<fkVars, cfgVars>>

\* this.emit(name, ...args) calls the listeners of `name` synchronously:
\* does the listener throw out of one of the emits of `did`?
Interrupted(did) ==
    \E i \in 1..Len(did) :
        /\ did[i].kind = "emit"
        /\ did[i].name = listener.on
        /\ listener.does = "throws"

\* what is done of `did`: each emit runs the listener of its event, and
\* nothing follows an emit whose listener throws
RECURSIVE Ran(_)
Ran(did) ==
    IF did = <<>> THEN <<>>
    ELSE LET e == Head(did) IN
         IF e.kind = "emit" /\ e.name = listener.on
         THEN IF listener.does = "throws"
              THEN <<e, Entry("listener", e.name, e.args)>>
              ELSE <<e, Entry("listener", e.name, e.args)>> \o Ran(Tail(did))
         ELSE <<e>> \o Ran(Tail(did))

\* the request rejects with err, having done `did` in this step
throw(did, err) ==
    /\ trace' = trace \o Ran(did)
    /\ pc' = "done"
    /\ outcome' = IF Interrupted(did) THEN "listenerError" ELSE err

\* the request goes on at `to`, having done `did` in this step
goto(did, to) ==
    /\ trace' = trace \o Ran(did)
    /\ pc' = IF Interrupted(did) THEN "done" ELSE to
    /\ outcome' = IF Interrupted(did) THEN "listenerError" ELSE outcome

\* await hook(this, event, ...params) on the controller  lib/hook.js:3-7
\* the hook method, when defined, is called and awaited: it may reject
hook(event, hookParams, to) ==
    IF event \in defined
    THEN \/ goto(<<Entry("hook", event, hookParams)>>, to)
         \/ throw(<<Entry("hook", event, hookParams)>>, "hookError")
    ELSE goto(<<>>, to)

\* authorization can not be switched off
authorizeDisabled_never(a) == FALSE

\* lib/parkesController.js:53  authorization is switched off
authorizeDisabled(a) == a = "false"

\* lib/parkesController.js:59-62  opts.scopes, when the caller passed
\* scopes: true, is replaced by this.rest.scopesPresent(ctx)
authorizeScopes(scopes) ==
    IF scopes
    THEN /\ allParams' = [merged |-> TRUE,
                          object |-> mergeQueryParams(query, params)]
         /\ authScopes' = [computed |-> TRUE,
                           list |-> scopesPresent(scopeModels, query, params)]
    ELSE /\ authScopes' = NoScopes
         /\ UNCHANGED allParams

\* the caller's function is called but not awaited: what it throws is lost
authorize_notAwaited(act, model, scopes, to) ==
    IF optAuthorize = "false"
    THEN goto(<<>>, to) /\ UNCHANGED mergeVars
    ELSE /\ goto(<<Entry("authorize", act, <<"ctx", model>>)>>, to)
         /\ authorizeScopes(scopes)

\* await this.authorize(ctx, {model, action})  lib/parkesController.js:52-65
\* the caller's function is called and awaited: it may throw or reject
authorize(act, model, scopes, to) ==
    IF authorizeDisabled(optAuthorize)
    THEN goto(<<>>, to) /\ UNCHANGED mergeVars
    ELSE /\ \/ goto(<<Entry("authorize", act, <<"ctx", model>>),
                      Entry("authorized", act, <<"ctx", model>>)>>, to)
            \/ throw(<<Entry("authorize", act, <<"ctx", model>>)>>, "authError")
         /\ authorizeScopes(scopes)

\* this.emit(name, ...args)
emit(name, args) == Entry("emit", name, args)

\* pluralize.singular(name), on the names of the controllers
singular(name) ==
    CASE name = "users" -> "user"
      [] name = "Users" -> "User"
      [] OTHER -> name

\* _.capitalize(name): the first character in upper case, the rest in lower
capitalize(name) ==
    CASE name \in {"user", "User"} -> "User"
      [] name \in {"users", "Users"} -> "Users"
      [] OTHER -> name

\* name.toLowerCase()
toLowerCase(name) ==
    CASE name \in {"user", "User"} -> "user"
      [] name \in {"users", "Users"} -> "users"
      [] OTHER -> name

\* lib/restHandler.js:398-400
modelName(name) == capitalize(singular(name))

\* the case of the name is kept
paramName_caseKept(name) == singular(name)

\* lib/restHandler.js:402-404
paramName(name) == toLowerCase(singular(name))

\* ctx.params[key], undefined when the route has no such parameter
param(key) == IF key \in DOMAIN params THEN params[key] ELSE Absent

\* lib/restHandler.js:252-261  whereByAlias(key): the where of the model's
\* own whereByAlias when the class defines one, {[resourceIdColumn]: key}
\* otherwise
whereByAlias(key) ==
    IF modelWhereByAlias
    THEN [queried |-> TRUE, by |-> "alias", column |-> "none", value |-> key]
    ELSE [queried |-> TRUE, by |-> "column", column |-> resourceIdColumn,
          value |-> key]

\* await this.rest.find(ctx)                        lib/restHandler.js:268-291
\* this.name is modelName(name) (l.103); the where is built (l.274), then
\* findOne yields a record or nothing
find(to) ==
    /\ findWhere' = whereByAlias(param(paramName(modelName(ctrlName))))
    /\ \/ goto(<<emit("beforeFind", <<"ctx">>), Entry("db", "findOne", <<>>),
                 emit("afterFind", <<"ctx", "record">>)>>, to)
       \/ throw(<<emit("beforeFind", <<"ctx">>), Entry("db", "findOne", <<>>),
                  emit("afterFind", <<"ctx", "null">>)>>, "not found")

\* ctx.state.data = value; [if (next)] await next()
\* show and index test next before calling it, the other actions do not
finish(value, guarded) ==
    /\ stateData' = value
    /\ IF hasNext
       THEN /\ trace' = trace \o <<Entry("state", "data", <<value>>),
                                  Entry("next", "next", <<>>)>>
            /\ outcome' = "ok"
       ELSE /\ trace' = trace \o <<Entry("state", "data", <<value>>)>>
            /\ outcome' = IF guarded THEN "ok" ELSE "TypeError"
    /\ pc' = "done"

\* what the steps that call authorize leave alone
quietA == UNCHANGED <<fkVars, findWhere, cfgVars, reqVars, stateData,
                      proxyHook, rows, pageVars, message>>

quiet == quietA /\ UNCHANGED mergeVars

\* what the steps that call find leave alone
quietF == UNCHANGED <<fkVars, cfgVars, reqVars, stateData, proxyHook, rows,
                      pageVars, message, mergeVars>>


\* ------------------------------------------------------------------- show
\* lib/parkesController.js:101
show_beforeShow ==
    /\ pc = "show_beforeShow"
    /\ hook("beforeShow", <<"ctx">>, "show_find")
    /\ quiet

\* lib/parkesController.js:103, lib/restHandler.js:296-298
show_find ==
    /\ pc = "show_find"
    /\ find("show_authorize")
    /\ quietF

\* lib/parkesController.js:104
show_authorize ==
    /\ pc = "show_authorize"
    /\ authorize("show", "record", TRUE, "show_afterShow")
    /\ quietA

\* lib/parkesController.js:106
show_afterShow ==
    /\ pc = "show_afterShow"
    /\ hook("afterShow", <<"ctx", "record">>, "show_finish")
    /\ quiet

\* lib/parkesController.js:108-110
show_finish ==
    /\ pc = "show_finish"
    /\ finish("record", TRUE)
    /\ UNCHANGED <<fkVars, findWhere, cfgVars, reqVars, proxyHook, rows, pageVars, mergeVars,
                   message>>

\* ------------------------------------------------------------------ index
\* lib/restHandler.js:217-221  the callback of filterModels.forEach computes
\* paramName(modelName) with modelName the module's function, not a name:
\* pluralize.singular(<function>) calls toLowerCase on it and throws a
\* TypeError, for the first scope model whatever the parameters are
buildFilterIncludesThrows(filterModels) == Len(filterModels) > 0

\* lib/restHandler.js:209-247  the includes built when nothing is thrown:
\* nothing is thrown only when forEach has no element to visit, and then
\* the list of includes is returned as it was created, empty
buildFilterIncludes(filterModels) == <<>>

\* lib/restHandler.js:419-436  mergeIncludes(includes, newIncludes), an
\* include being known by the name of its model: the new ones replace the
\* old ones of the same model and come last
mergeIncludes(includes, newIncludes) ==
    Filter(includes, Range(includes) \ Range(newIncludes)) \o newIncludes

\* lib/restHandler.js:420  what `includes` holds once mergeIncludes has
\* returned: const newArray = [].concat(includes) is a copy, and _.remove
\* and push (l.425, 432) work on the copy
includesAfterMerge(includes, newIncludes) == includes

\* lib/parkesController.js:117
index_beforeIndex ==
    /\ pc = "index_beforeIndex"
    /\ hook("beforeIndex", <<"ctx">>, "index_rest")
    /\ quiet

\* await this.rest.index(ctx)   lib/restHandler.js:301-343 and paginate
\* every query key gives a where-clause
filterClauses_everyKey(q, attributes) ==
    LET named == Filter(<<"other", "parentId", "status", "type">>, DOMAIN q)
    IN [i \in 1..Len(named) |->
           [kind |-> "equals", fields |-> <<named[i]>>, value |-> q[named[i]]]]

\* lib/restHandler.js:320-327  a clause {attribute: value} for each of the
\* filterAttributes that ctx.query has (_.has), in their order
filterClauses(q, attributes) ==
    LET named == Filter(attributes, DOMAIN q)
    IN [i \in 1..Len(named) |->
           [kind |-> "equals", fields |-> <<named[i]>>, value |-> q[named[i]]]]

\* lib/restHandler.js:312-318  the clause of the text search: ctx.query.q,
\* when truthy, is looked for (iLike) in each of options.search
searchClauses(q, fields) ==
    IF "q" \in DOMAIN q /\ q["q"] # <<>>
    THEN <<[kind |-> "search", fields |-> fields, value |-> q["q"]]>>
    ELSE <<>>

\* the search fields are taken off options.search as they are read
searchAfter_emptied(q, fields) ==
    IF "q" \in DOMAIN q /\ q["q"] # <<>> THEN <<>> ELSE fields

\* lib/restHandler.js:313-317  what options.search holds after the search
\* clause is built: searchFields.map(...) reads each field and pushes on
\* searchQueries[Op.or], a new array
searchAfter(q, fields) == fields

\* buildFilterIncludes merges the parameters first (l.212); findAndCountAll
\* answers a count and the rows of the page; formatPaginate rewrites
\* ctx.query before the envelope is returned
index_rest ==
    /\ pc = "index_rest"
    /\ allParams' = [merged |-> TRUE,
                     object |-> mergeQueryParams(query, params)]
    /\ IF buildFilterIncludesThrows(scopeModels)
       THEN /\ throw(<<>>, "TypeError")
            /\ UNCHANGED <<rows, pageVars, optInclude, search>>
       ELSE \E total \in 0..MaxCount, data \in 0..MaxRows :
            /\ data <= total
            /\ optInclude' = includesAfterMerge(optInclude,
                                 buildFilterIncludes(scopeModels))
            /\ search' = searchAfter(query, search)
            /\ goto(<<emit("beforeIndex", <<"ctx">>),
                      Entry("db", "findAndCountAll", <<>>),
                      emit("afterIndex", <<"ctx", "envelope">>)>>,
                    "index_authorize")
            /\ IF Interrupted(<<emit("beforeIndex", <<"ctx">>)>>)
               THEN UNCHANGED <<rows, pageVars>>
               ELSE /\ rows' = data
                    /\ count' = total
                    /\ include' =
                         [queried |-> TRUE,
                          list |-> mergeIncludes(optInclude,
                                       buildFilterIncludes(scopeModels))]
                    /\ where' = searchClauses(query, search)
                                 \o filterClauses(query, filterAttributes)
                    /\ envelope' =
                         paginate(query, total, data, defaultPageLength)
                    /\ query' = normalizeQuery(query)
    /\ UNCHANGED <<fkVars, findWhere, ctorVars, reqVars, stateData, proxyHook,
                   authScopes, message>>

\* lib/parkesController.js:121-129  authorize against the records, or
\* verifyIncludes (lib/parkesController.js:81-96) over the filter includes
index_authorize ==
    /\ pc = "index_authorize"
    /\ IF rows > 0
       THEN authorize("index", "collection", TRUE, "index_afterIndex")
       ELSE /\ allParams' = [merged |-> TRUE,
                             object |-> mergeQueryParams(query, params)]
            /\ UNCHANGED authScopes
            /\ IF buildFilterIncludesThrows(scopeModels)
               THEN throw(<<>>, "TypeError")
               ELSE \* the loop of verifyIncludes runs includes.length times
                    /\ Len(buildFilterIncludes(scopeModels)) = 0
                    /\ goto(<<>>, "index_afterIndex")
    /\ quietA

\* afterIndex given the whole result of rest.index
afterIndexParams_envelope == <<"ctx", "envelope">>

\* lib/parkesController.js:131  the parameters of afterIndex
afterIndexParams == <<"ctx", "collection">>

index_afterIndex ==
    /\ pc = "index_afterIndex"
    /\ hook("afterIndex", afterIndexParams, "index_finish")
    /\ quiet

\* lib/parkesController.js:133-135
index_finish ==
    /\ pc = "index_finish"
    /\ finish("envelope", TRUE)
    /\ UNCHANGED <<fkVars, findWhere, cfgVars, reqVars, proxyHook, rows, pageVars, mergeVars,
                   message>>

\* -------------------------------------------------- create and update
\* the first restricted field is never looked at
blockRestrictedKeys_skipFirst(list, keys) ==
    IF list = <<>> THEN <<>> ELSE Filter(Tail(list), keys)

\* lib/restHandler.js:117-129  the restricted fields named by the payload
blockRestrictedKeys(list, keys) == Filter(list, keys)

\* badFields.join(', ')
RECURSIVE join(_, _)
join(list, sep) ==
    IF Len(list) <= 1 THEN list
    ELSE <<Head(list), sep>> \o join(Tail(list), sep)

\* a separator follows every field, the last one too
restrictedMessage_trailing(badFields) ==
    <<"You may not update the fields: ">> \o join(badFields, ", ") \o <<", ">>

\* lib/restHandler.js:122  the message of the error, piece by piece
restrictedMessage(badFields) ==
    <<"You may not update the fields: ">> \o join(badFields, ", ")

\* a controller hook never started
hookProxy_never(event) == FALSE

\* hookProxy of createProxyHooks   lib/hook.js:9-17
\* does firing `event` on the RestHandler start the hook of the controller?
\* (the promise of that hook is not returned: the promise of hookProxy
\* resolves without it)
hookProxy(event) == event \in proxied /\ event \in defined

\* a request without body.data is let through
emptyBody_never(b) == FALSE

\* lib/restHandler.js:346-348, 368-370  !ctx.request.body.data
emptyBody(b) == ~b.present

\* lib/restHandler.js:347-358 (create) and 368-379 (update): the checks, the
\* event and the hook, up to the await that precedes the write
\* params = <<parameters of the event, parameters of the hook>>
beforeWrite(event, evParams, to) ==
    IF emptyBody(body)
    THEN throw(<<>>, "empty body") /\ UNCHANGED <<proxyHook, message>>
    ELSE IF Len(blockRestrictedKeys(restricted, body.keys)) > 0
    THEN /\ throw(<<>>, "restricted field")
         /\ message' = restrictedMessage(
                            blockRestrictedKeys(restricted, body.keys))
         /\ UNCHANGED proxyHook
    ELSE IF hookProxy(event)
    THEN /\ goto(<<emit(event, evParams[1]),
                   Entry("hook", event, evParams[2])>>, to)
         /\ proxyHook' = IF Interrupted(<<emit(event, evParams[1])>>)
                         THEN proxyHook ELSE "pending"
         /\ UNCHANGED message
    ELSE /\ goto(<<emit(event, evParams[1])>>, to)
         /\ UNCHANGED <<proxyHook, message>>

\* lib/parkesController.js:139
create_authorize ==
    /\ pc = "create_authorize"
    /\ authorize("create", "modelClass", FALSE, "create_rest")
    /\ quietA

\* lib/restHandler.js:357-358
beforeCreateParams == <<<<"ctx", "newRecord">>, <<"ctx", "newRecord">>>>

create_rest ==
    /\ pc = "create_rest"
    /\ beforeWrite("beforeCreate", beforeCreateParams, "create_write")
    /\ UNCHANGED <<fkVars, findWhere, cfgVars, reqVars, stateData, rows, pageVars, mergeVars>>

\* lib/restHandler.js:360-363
create_write ==
    /\ pc = "create_write"
    /\ goto(<<Entry("db", "create", <<"newRecord">>),
              emit("afterCreate", <<"ctx", "created">>)>>, "create_afterCreate")
    /\ quiet

\* lib/parkesController.js:142
create_afterCreate ==
    /\ pc = "create_afterCreate"
    /\ hook("afterCreate", <<"ctx", "created">>, "create_finish")
    /\ quiet

\* lib/parkesController.js:144-146
create_finish ==
    /\ pc = "create_finish"
    /\ finish("created", FALSE)
    /\ UNCHANGED <<fkVars, findWhere, cfgVars, reqVars, proxyHook, rows, pageVars, mergeVars,
                   message>>

\* lib/parkesController.js:150
update_find ==
    /\ pc = "update_find"
    /\ find("update_authorize")
    /\ quietF

\* lib/parkesController.js:152
update_authorize ==
    /\ pc = "update_authorize"
    /\ authorize("update", "record", FALSE, "update_rest")
    /\ quietA

\* lib/restHandler.js:378-379
beforeUpdateParams == <<<<"ctx", "record", "newRecord">>, <<"ctx", "newRecord">>>>

update_rest ==
    /\ pc = "update_rest"
    /\ beforeWrite("beforeUpdate", beforeUpdateParams, "update_write")
    /\ UNCHANGED <<fkVars, findWhere, cfgVars, reqVars, stateData, rows, pageVars, mergeVars>>

\* lib/restHandler.js:382-385
update_write ==
    /\ pc = "update_write"
    /\ goto(<<Entry("db", "update", <<"newRecord">>),
              emit("afterUpdate", <<"ctx", "record">>)>>, "update_afterUpdate")
    /\ quiet

\* lib/parkesController.js:156
update_afterUpdate ==
    /\ pc = "update_afterUpdate"
    /\ hook("afterUpdate", <<"ctx", "record">>, "update_finish")
    /\ quiet

\* lib/parkesController.js:158-160
update_finish ==
    /\ pc = "update_finish"
    /\ finish("record", FALSE)
    /\ UNCHANGED <<fkVars, findWhere, cfgVars, reqVars, proxyHook, rows, pageVars, mergeVars,
                   message>>

\* the promise of the controller hook started by hookProxy settles, at any
\* time after the hook was started: nothing awaits it
settle ==
    /\ proxyHook = "pending"
    /\ proxyHook' \in {"resolved", "rejected"}
    /\ UNCHANGED <<fkVars, findWhere, cfgVars, reqVars, pc, trace, stateData, outcome, rows,
                   pageVars, mergeVars, message>>

\* ---------------------------------------------------------------- destroy
\* lib/parkesController.js:164
destroy_find ==
    /\ pc = "destroy_find"
    /\ find("destroy_authorize")
    /\ quietF

\* lib/parkesController.js:166
destroy_authorize ==
    /\ pc = "destroy_authorize"
    /\ authorize("destroy", "record", FALSE, "destroy_beforeDestroy")
    /\ quietA

\* lib/parkesController.js:168
destroy_beforeDestroy ==
    /\ pc = "destroy_beforeDestroy"
    /\ hook("beforeDestroy", <<"ctx", "record">>, "destroy_rest")
    /\ quiet

\* await this.rest.destroy(ctx, model)   lib/restHandler.js:389-395
\* record.destroy() resolves to what the ORM chooses: the record or nothing
destroy_rest ==
    /\ pc = "destroy_rest"
    /\ \E data \in {"record", "undefined"} :
          goto(<<emit("beforeDestroy", <<"ctx", "record">>),
                 Entry("db", "destroy", <<>>),
                 emit("afterDestroy", <<"ctx", data>>)>>, "destroy_afterDestroy")
    /\ quiet

\* lib/parkesController.js:172
destroy_afterDestroy ==
    /\ pc = "destroy_afterDestroy"
    /\ hook("afterDestroy", <<"ctx", "record">>, "destroy_finish")
    /\ quiet

\* lib/parkesController.js:174-176
destroy_finish ==
    /\ pc = "destroy_finish"
    /\ finish("record", FALSE)
    /\ UNCHANGED <<fkVars, findWhere, cfgVars, reqVars, proxyHook, rows, pageVars, mergeVars,
                   message>>

\* ---------------------------------------------------------- specification
Next ==
    \/ constructor
    \/ request
    \/ show_beforeShow \/ show_find \/ show_authorize \/ show_afterShow
    \/ show_finish
    \/ index_beforeIndex \/ index_rest \/ index_authorize \/ index_afterIndex
    \/ index_finish
    \/ create_authorize \/ create_rest \/ create_write \/ create_afterCreate
    \/ create_finish
    \/ update_find \/ update_authorize \/ update_rest \/ update_write
    \/ update_afterUpdate \/ update_finish
    \/ destroy_find \/ destroy_authorize \/ destroy_beforeDestroy
    \/ destroy_rest \/ destroy_afterDestroy \/ destroy_finish
    \/ settle

Spec == Init /\ [][Next]_vars

\* -------------------------------------------- the pages of a plain index
\* a controller constructed with an authorize function, its model and name,
\* no hook, and the default options but for the page length
\* the options of such a controller that are the same for every one
BuiltPlain ==
    /\ ctor = "constructed"
    /\ restCreated = TRUE
    /\ optAuthorize = "fn"
    /\ optModels = "hasModel"
    /\ ctrlName = "user"
    /\ optRestricted = <<"unset">>
    /\ allowed = <<>>
    /\ scopeModels = <<>>
    /\ optInclude = defaults(<<"unset">>, <<>>)
    /\ search = defaults(<<"unset">>, <<"name">>)
    /\ modelWhereByAlias = FALSE
    /\ proxied = {"beforeCreate", "beforeUpdate"}
    /\ defined = {}

\* no request has been made
Idle ==
    /\ pc = "idle"
    /\ action = "none"
    /\ body = [present |-> FALSE, keys |-> {}]
    /\ hasNext = FALSE
    /\ listener = NoListener
    /\ params = EmptyObject
    /\ sent = EmptyObject
    /\ query = EmptyObject
    /\ allParams = NoParams
    /\ authScopes = NoScopes
    /\ message = <<>>
    /\ envelope = NoEnvelope
    /\ include = NoInclude
    /\ count = 0
    /\ trace = <<>>
    /\ stateData = "unset"
    /\ outcome = "none"
    /\ proxyHook = "none"
    /\ rows = 0
    /\ reqCount = 0
    /\ where = <<>>
    /\ findWhere = NoWhere
    /\ walk = <<>>
    /\ fkPc = "idle"
    /\ fkI = 0
    /\ fkRecord = EmptyObject
    /\ fkGiven = EmptyObject
    /\ foreignKeys = <<>>
    /\ fkOutcome = "none"

PInit ==
    /\ BuiltPlain
    /\ Idle
    /\ restricted = filterAllowed(defaultRestricted(<<"unset">>, "unset"), <<>>)
    /\ resourceIdColumn = defaultResourceIdColumn("unset")
    /\ defaultPageLength \in
          {defaultPageLengthOf(dpl) : dpl \in DefaultPageLengthValues}
    /\ filterAttributes \in
          {defaults(fa, <<>>) : fa \in FilterAttributesValues}

\* a request for a page arrives: router calls controller.index(ctx, next)
pageRequest ==
    /\ pc \in {"idle", "done"}
    /\ reqCount < MaxRequests
    /\ \E q \in PageQueries :
          /\ sent' = q
          /\ query' = q
    /\ action' = "index"
    /\ body' = [present |-> FALSE, keys |-> {}]
    /\ hasNext' = TRUE
    /\ listener' = NoListener
    /\ params' = EmptyObject
    /\ pc' = entry("index")
    /\ reqCount' = reqCount + 1
    /\ allParams' = NoParams
    /\ authScopes' = NoScopes
    /\ message' = <<>>
    /\ envelope' = NoEnvelope
    /\ include' = NoInclude
    /\ count' = 0
    /\ where' = <<>>
    /\ walk' = <<>>
    /\ trace' = <<>>
    /\ stateData' = "unset"
    /\ outcome' = "running"
    /\ proxyHook' = "none"
    /\ rows' = 0
    /\ findWhere' = NoWhere
    /\ UNCHANGED <<fkVars, cfgVars>>

PNext ==
    \/ pageRequest
    \/ index_beforeIndex \/ index_rest \/ index_authorize \/ index_afterIndex
    \/ index_finish

PaginateSpec == PInit /\ [][PNext]_vars

\* ------------------------------------------ a client that follows nextUrl
\* the query strings a walk starts with: an offset that is absent, zero or
\* not a number, any of the limits, with or without a type
WalkQueries ==
    {Present(r) : r \in [limit : LimitTexts,
                         offset : {Absent, <<"0">>, <<"x">>},
                         type : {Absent, <<"a", "b">>}]}

\* the page that the envelope of the request describes
CurrentPage ==
    [offset |-> envelope.pagination.offset,
     limit |-> envelope.pagination.limit,
     total |-> envelope.pagination.total,
     pages |-> envelope.pagination.pages]

\* the collection has had the same count on every page of the walk
Unchanging(visited) ==
    \A i \in 1..Len(visited) : visited[i].total = visited[1].total

\* a controller with the default options but for the page length
WInit ==
    /\ BuiltPlain
    /\ Idle
    /\ restricted = filterAllowed(defaultRestricted(<<"unset">>, "unset"), <<>>)
    /\ resourceIdColumn = defaultResourceIdColumn("unset")
    /\ defaultPageLength \in
          {defaultPageLengthOf(dpl) : dpl \in DefaultPageLengthValues}
    /\ filterAttributes = defaults(<<"unset">>, <<>>)

\* the router calls controller.index(ctx, next) with the query string q
indexRequest(q) ==
    /\ sent' = q
    /\ query' = q
    /\ action' = "index"
    /\ body' = [present |-> FALSE, keys |-> {}]
    /\ hasNext' = TRUE
    /\ listener' = NoListener
    /\ params' = EmptyObject
    /\ pc' = entry("index")
    /\ allParams' = NoParams
    /\ authScopes' = NoScopes
    /\ message' = <<>>
    /\ envelope' = NoEnvelope
    /\ include' = NoInclude
    /\ count' = 0
    /\ where' = <<>>
    /\ trace' = <<>>
    /\ stateData' = "unset"
    /\ outcome' = "running"
    /\ proxyHook' = "none"
    /\ rows' = 0
    /\ findWhere' = NoWhere
    /\ UNCHANGED <<fkVars, cfgVars, reqCount>>

\* the client asks for the first page
walkRequest ==
    /\ pc = "idle"
    /\ \E q \in WalkQueries : indexRequest(q)
    /\ walk' = <<>>

\* the client, answered with a page that has a nextUrl, requests that URL:
\* qs.stringify wrote newQuery into it and koa parses it back as ctx.query
\* the walk is followed while the collection is the same
followNext ==
    /\ pc = "done"
    /\ outcome = "ok"
    /\ envelope.set
    /\ envelope.pagination.nextUrl.url
    /\ Len(walk) < MaxHops
    /\ Unchanging(Append(walk, CurrentPage))
    /\ indexRequest(envelope.pagination.nextUrl.query)
    /\ walk' = Append(walk, CurrentPage)

WNext ==
    \/ walkRequest \/ followNext
    \/ index_beforeIndex \/ index_rest \/ index_authorize \/ index_afterIndex
    \/ index_finish

WalkSpec == WInit /\ [][WNext]_vars

\* ------------------------------------------------- mapForeignKeyToId
\* the records given to mapForeignKeyToId: each of these keys is absent,
\* empty, the external key of a model that exists ("x") or of none ("y")
FkRecordKeys == {"campaignUuid", "parentUuid", "campaignSlug"}
FkTexts == {Absent, <<>>, Str1("x"), Str1("y")}
FkRecords == {Present(r) : r \in [FkRecordKeys -> FkTexts]}

\* the foreignKeys given: {modelName, attribute} objects, or a string as
\* the shorthand of an object whose attribute it is
Foreign(m, a) == [shorthand |-> FALSE, modelName |-> m, attribute |-> a]
Shorthand(a) == [shorthand |-> TRUE, modelName |-> "", attribute |-> a]
ForeignKeysValues ==
    {<<>>, <<Shorthand("campaign")>>, <<Foreign("profile", "parent")>>,
     <<Shorthand("campaign"), Foreign("profile", "parent")>>}

\* lib/restHandler.js:410-413  columnKeyName(name, key) calls
\* pluralize.signular(name); pluralize has no function of that name
\* (singular is meant): the call throws a TypeError for every name and key
columnKeyNameThrows(name, key) == TRUE

\* lib/restHandler.js:406-408  columnIdName(name) is columnKeyName(name, 'id')
columnIdNameThrows(name) == columnKeyNameThrows(name, "id")

\* what a call of mapForeignKeyToId leaves alone
ctrlVars == <<cfgVars, reqVars, pc, trace, stateData, outcome, proxyHook,
              rows, pageVars, mergeVars, message, findWhere>>

\* rest.mapForeignKeyToId(record, foreignKeys) is called
\* lib/restHandler.js:170-171
fk_call ==
    /\ fkPc = "idle"
    /\ \E rec \in FkRecords, fks \in ForeignKeysValues :
          /\ fkGiven' = rec
          /\ fkRecord' = rec
          /\ foreignKeys' = fks
    /\ fkI' = 1
    /\ fkPc' = "loop"
    /\ fkOutcome' = "running"
    /\ UNCHANGED ctrlVars

\* one turn of the loop over foreignKeys   lib/restHandler.js:173-197
\* the first statement after the shorthand is expanded, columnIdName(...)
\* (l.183), throws: the async function rejects and the lookups of l.186-196
\* are never started
fk_loop ==
    /\ fkPc = "loop"
    /\ IF fkI > Len(foreignKeys)
       THEN /\ fkPc' = "await"
            /\ UNCHANGED <<fkI, fkOutcome>>
       ELSE /\ columnIdNameThrows(foreignKeys[fkI].attribute)
            /\ fkPc' = "done"
            /\ fkOutcome' = "TypeError"
            /\ UNCHANGED fkI
    /\ UNCHANGED <<fkRecord, fkGiven, foreignKeys, ctrlVars>>

\* await Promise.all(promises); return record   lib/restHandler.js:199-202
\* nothing is ever pushed on promises: Promise.all([]) resolves at once
fk_await ==
    /\ fkPc = "await"
    /\ fkPc' = "done"
    /\ fkOutcome' = "resolved"
    /\ UNCHANGED <<fkI, fkRecord, fkGiven, foreignKeys, ctrlVars>>

\* a controller with default options but for the id column
FInit ==
    /\ BuiltPlain
    /\ Idle
    /\ \E idc \in ResourceIdColumnValues :
          /\ resourceIdColumn = defaultResourceIdColumn(idc)
          /\ restricted = filterAllowed(defaultRestricted(<<"unset">>, idc),
                                        <<>>)
    /\ defaultPageLength = defaultPageLengthOf(0)
    /\ filterAttributes = defaults(<<"unset">>, <<>>)

FNext == fk_call \/ fk_loop \/ fk_await

ForeignKeySpec == FInit /\ [][FNext]_vars

TypeOK ==
    /\ ctor \in {"new", "constructed", "threw"}
    /\ restCreated \in BOOLEAN
    /\ optAuthorize \in AuthorizeValues
    /\ defined \in HookSets
    /\ body \in Bodies
    /\ stateData \in {"unset", "record", "created", "envelope"}
    /\ proxyHook \in {"none", "pending", "resolved", "rejected"}
    /\ rows \in 0..MaxRows
    /\ count \in 0..MaxCount
    /\ envelope.set \in BOOLEAN
    /\ allParams.merged \in BOOLEAN
    /\ authScopes.computed \in BOOLEAN
    /\ reqCount \in 0..MaxRequests


\* ------------------------------------------------------------ vocabulary
Done == pc = "done"
Succeeded == pc = "done" /\ outcome = "ok"

\* positions of the database writes of the request
Writes == Pos("db", "create") \cup Pos("db", "update") \cup Pos("db", "destroy")

\* positions of the calls of after-hooks
AfterHooks ==
    {i \in PosKind("hook") :
        trace[i].name \in {"afterShow", "afterIndex", "afterCreate",
                           "afterUpdate", "afterDestroy"}}

\* body.data has a key of the restricted list
RestrictedPayload == body.present /\ body.keys \cap Range(restricted) # {}

\* a listener threw out of an emit of the request
ListenerThrew == PosKind("listener") # {} /\ listener.does = "throws"

\* the request got as far as RestHandler.create / RestHandler.update
ReachedRest ==
    /\ authorizeDisabled(optAuthorize) \/ PosKind("authorized") # {}
    /\ action = "update" =>
          /\ \E i \in Pos("emit", "afterFind") :
                trace[i].args = <<"ctx", "record">>
          /\ ~ListenerThrew

\* ------------------------------------------------------------------- C1
\* C1 as stated: every create or update request whose body.data has a
\* restricted key rejects with the 400 'restricted field' error, and performs
\* no database write at any point.
C1_RestrictedAlways400 ==
    (action \in {"create", "update"} /\ RestrictedPayload) =>
        /\ Writes = {}
        /\ Done => outcome = "restricted field"

\* C1 (amended): a create or update request whose body.data has a restricted
\* key performs no database write at any point and never succeeds; it rejects
\* with the 400 'restricted field' error whenever it gets as far as
\* RestHandler.create / RestHandler.update, that is unless authorization or
\* (for update) the lookup of the record already rejected it.
C1_RestrictedNeverWritten ==
    (action \in {"create", "update"} /\ RestrictedPayload) =>
        /\ Writes = {}
        /\ Done => /\ outcome # "ok"
                   /\ ReachedRest => outcome = "restricted field"
                   /\ ~ReachedRest =>
                         outcome \in {"authError", "not found", "listenerError"}

C1_Witness ==
    /\ Done /\ action = "update" /\ RestrictedPayload
    /\ outcome = "restricted field"
    /\ Pos("db", "findOne") # {}

\* ------------------------------------------------------------------- C2
\* C2: for create, update and destroy with an authorize function, every
\* database write of the request comes after a call of authorize that
\* completed without throwing; when authorize throws, no write happens, no
\* after-hook runs and ctx.state.data is not set.
C2_WriteOnlyAfterAuthorize ==
    (action \in {"create", "update", "destroy"}
        /\ ~authorizeDisabled(optAuthorize)) =>
        /\ \A w \in Writes : \E a \in PosKind("authorized") :
              /\ a < w
              /\ trace[a].name = action
        /\ (\E a \in PosKind("authorize") :
               \A b \in PosKind("authorized") : b < a) =>
              /\ Writes = {}
              /\ AfterHooks = {}
              /\ stateData = "unset"
        /\ outcome = "authError" => Writes = {} /\ stateData = "unset"

C2_Witness ==
    /\ action = "destroy" /\ optAuthorize = "fn"
    /\ Pos("db", "destroy") # {}
    /\ Pos("authorized", "destroy") # {}

\* ------------------------------------------------------------------- C3
\* C3: a successful index with records calls authorize twice: before the
\* records are fetched with the model class, after with the records.
C3_IndexAuthorizesTwice ==
    (Succeeded /\ action = "index" /\ rows > 0
        /\ ~authorizeDisabled(optAuthorize)) =>
        /\ Cardinality(Pos("authorize", "index")) = 2
        /\ \E i, j \in Pos("authorize", "index") :
              \E f \in Pos("db", "findAndCountAll") :
                 /\ i < f /\ f < j
                 /\ trace[i].args = <<"ctx", "modelClass">>
                 /\ trace[j].args = <<"ctx", "collection">>

\* ------------------------------------------------------------------- C4
\* C4: construction succeeds only when options.authorize is truthy or
\* exactly false; with authorize undefined or null, or without options, the
\* constructor throws and no RestHandler is created.
C4_ConstructorRequiresAuthorize ==
    /\ ctor = "constructed" => Truthy(optAuthorize) \/ optAuthorize = "false"
    /\ (ctor # "new" /\ optAuthorize \in {"undefined", "null", "missing"}) =>
          ctor = "threw" /\ ~restCreated
    /\ restCreated => ctor = "constructed"

C4_Witness ==
    /\ ctor = "threw" /\ optAuthorize = "null"
    /\ optModels = "hasModel" /\ ctrlName = "user"
    /\ ~restCreated

\* ------------------------------------------------------------------- C5
\* where a request goes on after an authorization that succeeded
AuthorizeSuccessor(p) ==
    CASE p = "show_authorize" -> "show_afterShow"
      [] p = "index_authorize" -> "index_afterIndex"
      [] p = "create_authorize" -> "create_rest"
      [] p = "update_authorize" -> "update_rest"
      [] p = "destroy_authorize" -> "destroy_beforeDestroy"
      [] OTHER -> p

AuthorizePcs ==
    {"show_authorize", "index_authorize", "create_authorize",
     "update_authorize", "destroy_authorize"}

\* C5: with options.authorize exactly false no authorization callback is
\* ever invoked and no request fails on authorization; each authorization
\* point is passed as if authorization had succeeded: the request goes on at
\* the same place, having done nothing else.
C5_AuthorizeFalseNeverCalls ==
    /\ [](optAuthorize = "false" =>
            /\ PosKind("authorize") = {}
            /\ PosKind("authorized") = {}
            /\ outcome # "authError")
    /\ [][(optAuthorize = "false" /\ pc \in AuthorizePcs /\ pc' # pc) =>
            /\ pc' = AuthorizeSuccessor(pc)
            /\ trace' = trace
            /\ outcome' = outcome
            /\ stateData' = stateData]_vars

C5_Witness ==
    /\ optAuthorize = "false" /\ Succeeded /\ action = "destroy"
    /\ Pos("db", "destroy") # {}

\* ------------------------------------------------------------------- C6
\* the primary database action of a controller action
Primary(a) ==
    CASE a = "show" -> "findOne"
      [] a = "index" -> "findAndCountAll"
      [] a = "create" -> "create"
      [] a = "update" -> "update"
      [] a = "destroy" -> "destroy"
      [] OTHER -> "none"

Capitalized(a) ==
    CASE a = "show" -> "Show"
      [] a = "index" -> "Index"
      [] a = "create" -> "Create"
      [] a = "update" -> "Update"
      [] a = "destroy" -> "Destroy"
      [] OTHER -> "None"

BeforeOf(a) == "before" \o Capitalized(a)
AfterOf(a) == "after" \o Capitalized(a)

\* C6: when the controller defines beforeA and afterA, a successful request
\* of action A calls beforeA exactly once, before the primary database
\* action, and afterA exactly once, after that database action and before
\* ctx.state.data is set.
C6_HooksOnceAroundDatabase ==
    (Succeeded /\ {BeforeOf(action), AfterOf(action)} \subseteq defined) =>
        /\ Cardinality(Pos("hook", BeforeOf(action))) = 1
        /\ Cardinality(Pos("hook", AfterOf(action))) = 1
        /\ Cardinality(Pos("db", Primary(action))) = 1
        /\ Cardinality(PosKind("state")) = 1
        /\ \A b \in Pos("hook", BeforeOf(action)),
              d \in Pos("db", Primary(action)),
              a \in Pos("hook", AfterOf(action)),
              s \in PosKind("state") :
              b < d /\ d < a /\ a < s

C6_Witness ==
    /\ Succeeded /\ action = "update" /\ defined = HookNames
    /\ Pos("hook", "beforeUpdate") # {}
    /\ Pos("hook", "afterUpdate") # {}

\* ------------------------------------------------------------------- C7
\* C7: beforeUpdate is called with the context, then the existing record
\* being updated, then the new payload.
C7_BeforeUpdateGetsOldRecord ==
    \A i \in Pos("hook", "beforeUpdate") :
        trace[i].args = <<"ctx", "record", "newRecord">>

\* ------------------------------------------------------------------- C8
\* C8: create and update write only once the promise of the controller's
\* beforeCreate / beforeUpdate hook has resolved; when the hook rejects the
\* action rejects with that error and never writes.
C8_WriteWaitsForHook ==
    /\ (Pos("db", "create") \cup Pos("db", "update") # {}) =>
          proxyHook \in {"none", "resolved"}
    /\ (Done /\ proxyHook = "rejected") => outcome = "hookError"

\* ------------------------------------------------------------------- C9
\* the parameters the hook table gives to a hook
HookTableParams(h) ==
    CASE h = "afterShow" -> <<"ctx", "record">>
      [] h = "afterIndex" -> <<"ctx", "collection">>
      [] h = "afterCreate" -> <<"ctx", "created">>
      [] h = "afterUpdate" -> <<"ctx", "record">>
      [] h = "afterDestroy" -> <<"ctx", "record">>
      [] h = "beforeCreate" -> <<"ctx", "newRecord">>
      [] h = "beforeDestroy" -> <<"ctx", "record">>
      [] OTHER -> <<>>

\* C9: after-hooks receive the context and the result of the action
\* (afterShow the record, afterIndex the collection, afterCreate the created
\* model, afterUpdate and afterDestroy the record), beforeCreate the context
\* and the raw payload, beforeDestroy the context and the record.
C9_HookParameters ==
    \A i \in PosKind("hook") :
        trace[i].name \in {"afterShow", "afterIndex", "afterCreate",
                           "afterUpdate", "afterDestroy", "beforeCreate",
                           "beforeDestroy"} =>
            /\ trace[i].args = HookTableParams(trace[i].name)
            /\ trace[i].name \in {"afterShow", "afterCreate", "afterUpdate",
                                  "afterDestroy"} =>
                  (Succeeded => stateData = trace[i].args[2])

C9_Witness ==
    /\ Succeeded /\ action = "index" /\ rows > 0
    /\ Pos("hook", "afterIndex") # {}

\* ------------------------------------------------------------------ C10
\* C10: for every hook of the hook table that fires in a request, an event
\* of the same name is emitted in that request with the same parameters.
C10_EventsMirrorHooks ==
    Succeeded =>
        \A i \in PosKind("hook") : \E j \in PosKind("emit") :
            /\ trace[j].name = trace[i].name
            /\ trace[j].args = trace[i].args

\* ------------------------------------------------------------------ C11
\* C11 as stated: a listener registered on the RestHandler never changes how
\* the request ends: whatever it does (returns, never finishes, throws), a
\* request in which it ran does not reject because of it; when the request
\* has come to its last step the database operation was performed and
\* ctx.state.data is set, as with no listener.
C11_ListenersDoNotBlock ==
    (Done /\ PosKind("listener") # {}) =>
        /\ outcome # "listenerError"
        /\ outcome = "ok" => (PosKind("db") # {} /\ stateData # "unset")

\* ------------------------------------------------------------------ C12
\* what ctx.state.data holds after each action
StateDataOf(a) ==
    CASE a = "index" -> "envelope"
      [] a = "create" -> "created"
      [] OTHER -> "record"

\* C12 as stated: after a successful action ctx.state.data is the record
\* concerned (the envelope for index), and ctx.state.data is written only
\* when every authorization, hook and database step of the action has
\* succeeded: no hook that was started is still running or has rejected.
C12_StateDataAfterEveryStep ==
    /\ Succeeded => stateData = StateDataOf(action)
    /\ stateData # "unset" =>
          /\ proxyHook \in {"none", "resolved"}
          /\ PosKind("db") # {}
          /\ \A i \in PosKind("authorize") : \E j \in PosKind("authorized") :
                 j = i + 1

\* ------------------------------------------------------------------ C13
\* the fields named by the message: the pieces between the separators
NamedAt == {i \in 2..Len(message) : i % 2 = 0}

\* C13: the 'restricted field' error starts with 'You may not update the
\* fields: ' and names, separated by ', ', exactly the restricted fields
\* that are keys of the payload, each once and in the order of the
\* restricted list (id and uuid give 'id, uuid'); a payload without a
\* restricted key never gets that error.
C13_RestrictedErrorNames ==
    /\ outcome = "restricted field" =>
          /\ Len(message) >= 2 /\ Len(message) % 2 = 0
          /\ message[1] = "You may not update the fields: "
          /\ \A i \in 3..Len(message) : i % 2 = 1 => message[i] = ", "
          /\ {message[i] : i \in NamedAt} = body.keys \cap Range(restricted)
          /\ \A i, j \in NamedAt :
                i < j => \E k, l \in 1..Len(restricted) :
                            /\ k < l
                            /\ restricted[k] = message[i]
                            /\ restricted[l] = message[j]
          /\ (body.keys = {"id", "uuid"} /\ optRestricted = <<"unset">>
               /\ allowed = <<>>) =>
                message = <<"You may not update the fields: ",
                            "id", ", ", "uuid">>
    /\ (body.keys \cap Range(restricted) = {}) =>
          (outcome # "restricted field" /\ message = <<>>)

\* a payload with id and uuid is refused, and one with the restricted id and
\* the free job names id alone: both happen
C13_Witness ==
    /\ outcome = "restricted field"
    /\ body.keys = {"id", "uuid"}
    /\ message = <<"You may not update the fields: ", "id", ", ", "uuid">>

\* ------------------------------------------------------------------ C14
\* the index request got as far as RestHandler.index and no listener threw
IndexQueried ==
    /\ action = "index" /\ Done
    /\ ~ListenerThrew
    /\ ~(outcome = "hookError" /\ Pos("emit", "beforeIndex") = {})

\* C14 as stated: the query of an index carries one required include for
\* each scope model whose parameter has a truthy value in the merged
\* query/route parameters, in the order of scopeModels, and no include for
\* the other scope models.
C14_ScopeModelIncludes ==
    IndexQueried =>
        /\ include.queried
        /\ include.list =
              Filter(scopeModels,
                     {k \in DOMAIN sent \cup DOMAIN params :
                        IF k \in DOMAIN params THEN params[k] # <<>>
                        ELSE sent[k] # <<>>})

\* ------------------------------------------------------------------ C15
\* the keys of the merged query and route parameters
MergedKeys == DOMAIN sent \cup DOMAIN params

\* C15: when show or index calls the authorize callback, opts.scopes is the
\* list of the entries of scopeModels that are keys of the merged query and
\* route parameters, each once and in the order of scopeModels; create,
\* update and destroy compute no scopes.
C15_ScopesPassedToAuthorize ==
    /\ (action \in {"show", "index"} /\ PosKind("authorize") # {}) =>
          /\ authScopes.computed
          /\ Range(authScopes.list) = Range(scopeModels) \cap MergedKeys
          /\ \A i, j \in 1..Len(authScopes.list) :
                i < j => \E k, l \in 1..Len(scopeModels) :
                            /\ k < l
                            /\ scopeModels[k] = authScopes.list[i]
                            /\ scopeModels[l] = authScopes.list[j]
    /\ action \in {"create", "update", "destroy"} =>
          (~authScopes.computed /\ authScopes.list = <<>>)

\* show is authorized with a scope that is in the route only and one that
\* is in the query string only
C15_Witness ==
    /\ action = "show" /\ PosKind("authorized") # {}
    /\ authScopes.list = <<"organisation", "campaign">>
    /\ "organisation" \in DOMAIN params \ DOMAIN sent
    /\ "campaign" \in DOMAIN sent \ DOMAIN params

\* ------------------------------------------------------------------ C16
\* the default list of the claim, written out
C16_DefaultList ==
    <<"id", "uuid", "password", "permission", "internal",
      "privateKey", "publicKey", "userId", "organisationId">>

\* the restricted list before options.allowed is applied, as C16 states it
C16_Expected ==
    IF optRestricted = <<"unset">>
    THEN IF resourceIdColumn \in Range(C16_DefaultList)
         THEN C16_DefaultList
         ELSE Append(C16_DefaultList, resourceIdColumn)
    ELSE optRestricted

\* C16: a constructed RestHandler whose options.restricted was not supplied
\* restricts the nine default fields plus its resourceIdColumn, each once;
\* a supplied options.restricted is used as given.  (options.allowed is
\* applied afterwards: it only removes fields, and removes none unless it
\* lists them.)
C16_DefaultRestricted ==
    ctor = "constructed" =>
        /\ allowed = <<>> => restricted = C16_Expected
        /\ Range(restricted) \subseteq Range(C16_Expected)
        /\ Range(C16_Expected) \ Range(restricted) \subseteq Range(allowed)
        /\ \A i, j \in 1..Len(restricted) :
              restricted[i] = restricted[j] => i = j

\* the id column is uuid, which the default list has already: the list is
\* the nine default fields
C16_Witness ==
    /\ ctor = "constructed"
    /\ optRestricted = <<"unset">>
    /\ resourceIdColumn = "uuid"
    /\ allowed = <<>>
    /\ Len(restricted) = 9

\* ------------------------------------------------------------------ C17
\* the payload keys that stay restricted: in the list before options.allowed
\* is applied, and not allowed
StillRestricted == body.keys \cap (Range(C16_Expected) \ Range(allowed))

\* C17: the restricted list of a constructed RestHandler is the list before
\* options.allowed is applied without the allowed fields, the others in
\* their order; a create or update whose payload has allowed fields and no
\* field that stays restricted never gets the 'restricted field' error; one
\* whose payload has a field that stays restricted writes nothing, and gets
\* that error once it reaches RestHandler.create / update.
C17_AllowedRemovesListed ==
    /\ ctor = "constructed" =>
          restricted = Filter(C16_Expected,
                              Range(C16_Expected) \ Range(allowed))
    /\ (action \in {"create", "update"} /\ StillRestricted = {}) =>
          outcome # "restricted field"
    /\ (action \in {"create", "update"} /\ StillRestricted # {}) =>
          /\ Writes = {}
          /\ (Done /\ ReachedRest) => outcome = "restricted field"

\* id is allowed: a create whose payload sets id is written
C17_Witness ==
    /\ action = "create"
    /\ allowed = <<"id">>
    /\ "id" \in Range(C16_Expected)
    /\ body.keys = {"id"}
    /\ Pos("db", "create") # {}

\* ------------------------------------------------------------------ C18
\* the integer a query parameter gives, or else `otherwise`: the parameter
\* is absent, does not start with an integer, or gives 0
IntegerOrElse(key, otherwise) ==
    IF key \notin DOMAIN sent THEN otherwise
    ELSE LET n == parseInt(sent[key])
         IN IF n.nan \/ n.val = 0 THEN otherwise ELSE n.val

\* p is the smallest integer that is at least total / limit
IsCeil(p, total, limit) ==
    IF limit > 0
    THEN p * limit >= total /\ (p - 1) * limit < total
    ELSE p * limit <= total /\ (p - 1) * limit > total

\* C18: the envelope built by a paginated index has the count answered by
\* findAndCountAll as total and the rows answered as collection; its limit
\* is the integer of the query's limit or else defaultPageLength (100 when
\* the option is not given), its offset the integer of the query's offset
\* or else 0, and its pages the ceiling of total / limit.
C18_Envelope ==
    envelope.set =>
        LET p == envelope.pagination IN
        /\ p.total = count
        /\ envelope.collection = rows
        /\ p.limit = IntegerOrElse("limit", defaultPageLength)
        /\ p.offset = IntegerOrElse("offset", 0)
        /\ IsCeil(p.pages, p.total, p.limit)
        /\ "limit" \notin DOMAIN sent => p.limit \in {100, 2}
        /\ ("limit" \in DOMAIN sent /\ sent["limit"] = <<"2">>) => p.limit = 2
        /\ ("offset" \in DOMAIN sent /\ sent["offset"] = <<"1", "2">>) =>
              p.offset = 12

\* three records counted, read two by two from the second: two pages
C18_Witness ==
    /\ Succeeded /\ stateData = "envelope"
    /\ envelope.set
    /\ DOMAIN sent = {"limit", "offset"}
    /\ sent["limit"] = <<"2">> /\ sent["offset"] = <<"1">>
    /\ count = 3 /\ rows = 1
    /\ envelope.pagination.total = 3
    /\ envelope.pagination.pages = 2
    /\ envelope.pagination.offset = 1

\* ------------------------------------------------------------------ C19
\* the parameters of the request other than limit and offset
OtherKeys == DOMAIN sent \ {"limit", "offset"}

\* the link is there and has offset o and the limit of the page
PointsAt(link, o) ==
    /\ link.url
    /\ {"limit", "offset"} \subseteq DOMAIN link.query
    /\ link.query["offset"] = NumberToString(o)
    /\ link.query["limit"] = NumberToString(envelope.pagination.limit)

\* the link has the other parameters of the request, as they were sent
CarriesSent(link) ==
    /\ DOMAIN link.query \ {"limit", "offset"} = OtherKeys
    /\ \A k \in OtherKeys : link.query[k] = sent[k]

\* the link has the other parameters of the request, but type in upper case
\* and neither an empty type nor an empty parentId
CarriesNormalized(link) ==
    LET empty == {k \in OtherKeys \cap {"type", "parentId"} : sent[k] = <<>>}
    IN /\ DOMAIN link.query \ {"limit", "offset"} = OtherKeys \ empty
       /\ \A k \in OtherKeys \ empty :
             link.query[k] = IF k = "type" THEN toUpperCase(sent[k])
                             ELSE sent[k]

\* C19 as stated: prevUrl is false exactly when offset is 0, and otherwise
\* points at offset max(offset - limit, 0); nextUrl is false exactly when
\* total <= offset + limit, and otherwise points at offset + limit; both
\* links have the limit of the page and the other query parameters of the
\* request.
C19_Links ==
    envelope.set =>
        LET p == envelope.pagination IN
        /\ ~p.prevUrl.url <=> p.offset = 0
        /\ p.prevUrl.url =>
              /\ PointsAt(p.prevUrl, max(p.offset - p.limit, 0))
              /\ CarriesSent(p.prevUrl)
        /\ ~p.nextUrl.url <=> p.total <= p.offset + p.limit
        /\ p.nextUrl.url =>
              /\ PointsAt(p.nextUrl, p.offset + p.limit)
              /\ CarriesSent(p.nextUrl)

\* C19, amended: prevUrl is false exactly when offset is 0 or less, and
\* otherwise points at offset max(offset - limit, 0); nextUrl is false
\* exactly when total <= offset + limit, and otherwise points at
\* offset + limit; both links have the limit of the page and the other query
\* parameters of the request with type in upper case and without an empty
\* type or parentId.
C19_LinksNormalized ==
    envelope.set =>
        LET p == envelope.pagination IN
        /\ ~p.prevUrl.url <=> p.offset <= 0
        /\ p.prevUrl.url =>
              /\ PointsAt(p.prevUrl, max(p.offset - p.limit, 0))
              /\ CarriesNormalized(p.prevUrl)
        /\ ~p.nextUrl.url <=> p.total <= p.offset + p.limit
        /\ p.nextUrl.url =>
              /\ PointsAt(p.nextUrl, p.offset + p.limit)
              /\ CarriesNormalized(p.nextUrl)
        /\ (p.prevUrl.url /\ "type" \in DOMAIN sent
              /\ sent["type"] = <<"a", "b">>) =>
                p.prevUrl.query["type"] = <<"A", "B">>

\* a page in the middle: three records, the second one asked for, with a
\* type; both links are there, to offsets 0 and 2
C19_Witness ==
    /\ envelope.set
    /\ envelope.pagination.total = 3
    /\ envelope.pagination.offset = 1
    /\ envelope.pagination.limit = 1
    /\ envelope.pagination.prevUrl.url
    /\ envelope.pagination.nextUrl.url
    /\ envelope.pagination.prevUrl.query["offset"] = <<"0">>
    /\ envelope.pagination.nextUrl.query["offset"] = <<"2">>
    /\ "type" \in DOMAIN envelope.pagination.nextUrl.query

\* ------------------------------------------------------------------ C20
\* m has every key of q and of p, with the value of p when p has the key and
\* the value of q otherwise
MergedFrom(m, q, p) ==
    /\ DOMAIN m = DOMAIN q \cup DOMAIN p
    /\ \A k \in DOMAIN p : m[k] = p[k]
    /\ \A k \in DOMAIN q \ DOMAIN p : m[k] = q[k]

\* the steps in which mergeQueryParams is called and nothing else touches
\* ctx.query or ctx.params
MergeSteps == {"show_authorize", "index_authorize"}

\* C20, the result: whenever mergeQueryParams(ctx) has been called, what it
\* returned has every key of ctx.query and ctx.params, with the route
\* parameter's value for a key of both.  (ctx.query is what the client sent
\* until paginate has run, and what formatPaginate made of it afterwards.)
C20_MergedLookup ==
    allParams.merged =>
        \/ MergedFrom(allParams.object, sent, params)
        \/ envelope.set /\ MergedFrom(allParams.object, query, params)

\* a step that calls mergeQueryParams leaves ctx.query and ctx.params as
\* they were
ArgumentsUntouched ==
    (pc \in MergeSteps) => (query' = query /\ params' = params)

C20_ArgumentsUntouched == [][ArgumentsUntouched]_vars

\* C20: mergeQueryParams returns a new lookup with every key of ctx.query and
\* ctx.params, the route parameter winning, and modifies neither of them.
C20_MergeQueryParams == []C20_MergedLookup /\ C20_ArgumentsUntouched

\* show has merged a query string and route parameters that both have
\* organisation, with different values: the lookup has the route's
C20_Witness ==
    /\ action = "show"
    /\ allParams.merged
    /\ "organisation" \in DOMAIN sent \cap DOMAIN params
    /\ sent["organisation"] # params["organisation"]
    /\ allParams.object["organisation"] = params["organisation"]
    /\ "campaign" \in DOMAIN allParams.object
    /\ query = sent

\* ------------------------------------------------------------------ C21
\* <attribute><ResourceIdColumn>, the property of the external key
ExternalKey(attribute) ==
    CASE attribute = "campaign" /\ resourceIdColumn = "uuid" -> "campaignUuid"
      [] attribute = "campaign" /\ resourceIdColumn = "slug" -> "campaignSlug"
      [] attribute = "parent" /\ resourceIdColumn = "uuid" -> "parentUuid"
      [] OTHER -> "parentSlug"

\* <attribute>Id
IdKey(attribute) == IF attribute = "campaign" THEN "campaignId" ELSE "parentId"

\* the listed attributes whose external key the record had, with a value
ListedPresent ==
    {foreignKeys[i].attribute : i \in 1..Len(foreignKeys)} \cap
    {a \in {"campaign", "parent"} :
        ExternalKey(a) \in DOMAIN fkGiven /\ fkGiven[ExternalKey(a)] # <<>>}

\* C21 as stated: a call of mapForeignKeyToId ends resolved, and then every
\* listed foreign key that the record had is mapped (the record has
\* <attribute>Id and no longer the external key) while the other properties
\* of the record are as they were given.
C21_ForeignKeysMapped ==
    fkPc = "done" =>
        /\ fkOutcome = "resolved"
        /\ \A a \in ListedPresent :
              /\ IdKey(a) \in DOMAIN fkRecord
              /\ ExternalKey(a) \notin DOMAIN fkRecord
        /\ \A k \in DOMAIN fkGiven :
              (k \notin {ExternalKey(a) : a \in ListedPresent}) =>
                 (k \in DOMAIN fkRecord /\ fkRecord[k] = fkGiven[k])

\* ------------------------------------------------------------------ C27
\* the listed attributes whose external key, present in the record, is the
\* key of no model
Unresolved ==
    {a \in ListedPresent : fkGiven[ExternalKey(a)] = Str1("y")}

\* C27 as stated: a call of mapForeignKeyToId on a record with a foreign
\* key that refers to a model that cannot be found ends rejected with the
\* 404 RestError naming the attribute.
C27_MissingModelRejects404 ==
    (fkPc = "done" /\ Unresolved # {}) => fkOutcome = "not found"

\* ------------------------------------------------------------------- C22
\* the options the claim lists, as the RestHandler holds them
Options == <<restricted, allowed, optInclude, scopeModels, filterAttributes,
             search, resourceIdColumn, defaultPageLength>>

\* a step of a constructed controller leaves every option as it was
OptionsKept == (ctor = "constructed") => UNCHANGED Options

\* C22: the options are immutable after construction: no step of a show,
\* index, create, update or destroy request changes restricted, allowed,
\* include, scopeModels, filterAttributes, search, resourceIdColumn or
\* defaultPageLength; merging the filter includes into the default includes
\* and building the where-clauses leave options.include as it was
C22_OptionsImmutable == [][OptionsKept]_vars

\* an index with a text search, on a controller with default includes, has
\* merged the includes and built its where-clause
C22_Witness ==
    /\ pc = "done"
    /\ action = "index"
    /\ outcome = "ok"
    /\ optInclude = <<"profile">>
    /\ include.queried
    /\ include.list = <<"profile">>
    /\ \E i \in 1..Len(where) : where[i].kind = "search"

\* ------------------------------------------------------------------- C23
\* the equality clause {attribute: value}
Equals(attribute, value) ==
    [kind |-> "equals", fields |-> <<attribute>>, value |-> value]

\* the filter attributes that the query string of the request names
Specified == Range(filterAttributes) \cap DOMAIN sent

\* C23: an index query has the equality where-clause {attribute: value}
\* for each attribute of options.filterAttributes that the request's query
\* specifies, with the value sent, an empty one too; a query key that is
\* not in filterAttributes causes no equality clause
C23_FilterAttributes ==
    include.queried =>
        /\ \A a \in Specified :
              \E i \in 1..Len(where) : where[i] = Equals(a, sent[a])
        /\ \A i \in 1..Len(where) :
              where[i].kind = "equals" =>
                 \E a \in Specified : where[i] = Equals(a, sent[a])

\* an index whose query has a listed attribute with an empty value and a
\* key that is not listed
C23_Witness ==
    /\ include.queried
    /\ filterAttributes = <<"type", "status">>
    /\ {"type", "parentId"} \subseteq DOMAIN sent
    /\ sent["type"] = <<>>
    /\ where = <<Equals("type", <<>>)>>

\* ------------------------------------------------------------------- C24
\* the scope models whose parameter is truthy in the merged parameters: the
\* filter includes of the request
ScopeIncludes ==
    Filter(scopeModels,
           {k \in DOMAIN sent \cup DOMAIN params :
              IF k \in DOMAIN params THEN params[k] # <<>>
              ELSE sent[k] # <<>>})

\* C24 as stated: an index that is past its before-hook queries the
\* collection; when the collection is empty each filter include of the
\* request is looked up in order, the request failing with 404 'not found'
\* for a scoping model that is not found and authorizing with action 'view'
\* against one that is found, and completing with the empty collection only
\* when all pass; when the collection is not empty no lookup is made.
C24_EmptyIndexVerifiesIncludes ==
    IndexQueried =>
        /\ include.queried
        /\ outcome \in {"ok", "not found", "authError", "hookError"}
        /\ rows > 0 => Pos("db", "findOne") = {}
        /\ (rows = 0 /\ outcome = "ok") =>
              /\ Cardinality(Pos("db", "findOne")) = Len(ScopeIncludes)
              /\ Cardinality(Pos("authorized", "view")) = Len(ScopeIncludes)

\* ------------------------------------------------------------------- C25
\* the request is for one record and findOne has been called for it
LookedUp ==
    /\ action \in {"show", "update", "destroy"}
    /\ Pos("db", "findOne") # {}

\* C25: show, update and destroy look their record up by
\* {<resourceIdColumn>: ctx.params[<singular lower-case resource name>]},
\* the column being 'uuid' unless options.resourceIdColumn names another,
\* unless the model class defines whereByAlias, whose where is used then
C25_LookupByResourceId ==
    LookedUp =>
        /\ findWhere.queried
        /\ findWhere.value = params["user"]
        /\ resourceIdColumn \in {"uuid", "slug"}
        /\ IF modelWhereByAlias
           THEN findWhere.by = "alias"
           ELSE findWhere.by = "column" /\ findWhere.column = resourceIdColumn

\* a controller named 'Users' with the default id column has looked a
\* record up for an update
C25_Witness ==
    /\ LookedUp
    /\ action = "update"
    /\ ctrlName = "Users"
    /\ ~modelWhereByAlias
    /\ findWhere = [queried |-> TRUE, by |-> "column", column |-> "uuid",
                    value |-> Str2("u", "1")]

\* ------------------------------------------------------------------- C26
\* findOne yielded nothing for the record the request addresses
NothingFound ==
    /\ action \in {"show", "update", "destroy"}
    /\ \E i \in Pos("emit", "afterFind") : trace[i].args = <<"ctx", "null">>

\* C26 as stated: when the record addressed by show, update or destroy does
\* not exist, the action rejects with the 404 'not found' error and, for
\* that request, authorize is not called, no after-hook runs, no
\* record.update or record.destroy is performed, ctx.state.data is not set
\* and next is not called.
C26_NotFoundStops ==
    NothingFound =>
        /\ Done
        /\ outcome = "not found"
        /\ PosKind("authorize") = {}
        /\ AfterHooks = {}
        /\ Writes = {}
        /\ stateData = "unset"
        /\ Pos("next", "next") = {}

Visited == IF envelope.set THEN Append(walk, CurrentPage) ELSE walk

\* the record indexes [offset, offset + limit) of a page
Window(page) == page.offset .. (page.offset + page.limit - 1)

\* C28 as stated: a client that starts at offset 0 and follows nextUrl over
\* a collection of a constant total makes exactly max(pages, 1) requests
\* before nextUrl is false; the windows [offset, offset + limit) of the
\* pages it visits are disjoint and cover the indexes 0..total-1; and the
\* prevUrl of each page after the first leads to the offset of the page
\* before it.
C28_WalkCoversCollection ==
    LET v == Visited IN
    (v # <<>> /\ v[1].offset = 0 /\ Unchanging(v)) =>
        /\ Len(v) <= max(v[1].pages, 1)
        /\ \A i, j \in 1..Len(v) :
              i < j => Window(v[i]) \cap Window(v[j]) = {}
        /\ (envelope.set /\ ~envelope.pagination.nextUrl.url) =>
              /\ Len(v) = max(v[1].pages, 1)
              /\ (0 .. (v[1].total - 1))
                    \subseteq UNION {Window(v[i]) : i \in 1..Len(v)}
        /\ (envelope.set /\ Len(v) > 1) =>
              /\ envelope.pagination.prevUrl.url
              /\ pageOffset(envelope.pagination.prevUrl.query)
                    = v[Len(v) - 1].offset

\* ------------------------------------------------------------------- C30
\* a create or update request whose body has no data attribute
EmptyBody == action \in {"create", "update"} /\ ~body.present

\* positions of the beforeCreate / beforeUpdate hooks and events
BeforeWrites ==
    {i \in PosKind("hook") \cup PosKind("emit") :
        trace[i].name \in {"beforeCreate", "beforeUpdate"}}

\* C30 as stated: every create or update request whose body has no data
\* attribute rejects with the 400 'empty body' error, the restricted-field
\* check not made, no beforeCreate/beforeUpdate hook or event fired and no
\* database write performed.
C30_EmptyBodyAlways400 ==
    (EmptyBody /\ Done) =>
        /\ outcome = "empty body"
        /\ message = <<>>
        /\ BeforeWrites = {}
        /\ Writes = {}

\* C30, amended: a create or update request whose body has no data
\* attribute never succeeds, never gets the restricted-field error, fires
\* no beforeCreate/beforeUpdate hook or event and performs no database
\* write (the record fetched for update is not updated); it rejects with
\* the 400 'empty body' error whenever it gets as far as RestHandler.create
\* / RestHandler.update, that is unless authorize or (for update) the
\* lookup of the record has rejected it before.
C30_EmptyBodyNeverWritten ==
    EmptyBody =>
        /\ ~Succeeded
        /\ outcome # "restricted field"
        /\ message = <<>>
        /\ BeforeWrites = {}
        /\ Writes = {}
        /\ (Done /\ ReachedRest) => outcome = "empty body"

\* an update without body.data, authorized for the record that was found,
\* has been rejected as empty
C30_Witness ==
    /\ EmptyBody
    /\ action = "update"
    /\ Done
    /\ ReachedRest
    /\ Pos("authorized", "update") # {}
    /\ outcome = "empty body"
====
